---- MODULE Spec2Model ----
\* go-teamcity-report: converts the output of go test -v, read line by line from
\* standard input, into TeamCity service messages on standard output.
\*
\* Text is modelled at the level the program's regular expressions see it: a
\* string is a sequence of characters (runes), each written as a one-character
\* TLA+ string; a character outside printable ASCII is written as a token of
\* the form "U+XXXX" (the backtick is "U+0060").  Standard output is the sequence of lines written so far.
EXTENDS Integers, Sequences, FiniteSets, TLC

\* ------------------------------------------------------------------------
\* Bounds of the model
\* ------------------------------------------------------------------------
\* Longest input (number of lines read from standard input) explored.
MaxLines == 5
\* Longest input explored when the input is drawn from ScenarioLines.
MaxScenarioLines == 6
\* Longest input explored when the input is drawn from SuiteLines.
MaxSuiteLines == 5

\* ------------------------------------------------------------------------
\* Characters
\* ------------------------------------------------------------------------
\* Printable ASCII, in code order starting at 0x20.
Printable ==
  <<" ", "!", "\"", "#", "$", "%", "&", "'", "(", ")", "*", "+", ",", "-", ".", "/",
    "0", "1", "2", "3", "4", "5", "6", "7", "8", "9", ":", ";", "<", "=", ">", "?",
    "@", "A", "B", "C", "D", "E", "F", "G", "H", "I", "J", "K", "L", "M", "N", "O",
    "P", "Q", "R", "S", "T", "U", "V", "W", "X", "Y", "Z", "[", "\\", "]", "^", "_",
    "U+0060", "a", "b", "c", "d", "e", "f", "g", "h", "i", "j", "k", "l", "m", "n", "o",
    "p", "q", "r", "s", "t", "u", "v", "w", "x", "y", "z", "{", "|", "}", "~">>

\* Characters outside printable ASCII that the model uses, with their code points.
Runes ==
  <<  <<"\t", 9>>, <<"\n", 10>>, <<"\f", 12>>, <<"\r", 13>>,
      <<"U+0001", 1>>, <<"U+000B", 11>>, <<"U+007F", 127>>, <<"U+0085", 133>>,
      <<"U+00A0", 160>>, <<"U+00E9", 233>>, <<"U+20AC", 8364>>,
      <<"U+FFFF", 65535>>, <<"U+10000", 65536>>, <<"U+1F600", 128512>> >>

\* The Unicode code point of a character.
CodePoint(c) ==
  IF \E i \in 1..Len(Printable) : Printable[i] = c
  THEN 31 + (CHOOSE i \in 1..Len(Printable) : Printable[i] = c)
  ELSE Runes[CHOOSE i \in 1..Len(Runes) : Runes[i][1] = c][2]

\* byte(in[0]): the first byte of the UTF-8 encoding of a character.
FirstByte(c) ==
  LET cp == CodePoint(c) IN
  IF cp < 128 THEN cp
  ELSE IF cp < 2048 THEN 192 + (cp \div 64)
  ELSE IF cp < 65536 THEN 224 + (cp \div 4096)
  ELSE 240 + (cp \div 262144)

\* Go regexp \s: [\t\n\f\r ].
IsSpace(c) == c \in {"\t", "\n", "\f", "\r", " "}

\* Go regexp [\d.].
IsNumeric(c) == c \in {"0", "1", "2", "3", "4", "5", "6", "7", "8", "9", "."}

\* unicode.IsSpace, the cutset of strings.TrimSpace.
IsUnicodeSpace(c) == c \in {"\t", "\n", "U+000B", "\f", "\r", " ", "U+0085", "U+00A0"}

\* s has p at position i.
HasPrefixAt(s, p, i) ==
  /\ Len(s) >= i + Len(p) - 1
  /\ SubSeq(s, i, i + Len(p) - 1) = p

\* The first position at or after i that holds no \s character.
RECURSIVE SkipSpace(_, _)
SkipSpace(s, i) ==
  IF i <= Len(s) /\ IsSpace(s[i]) THEN SkipSpace(s, i + 1) ELSE i

\* The first position at or after i that holds no \S character.
RECURSIVE SkipNonSpace(_, _)
SkipNonSpace(s, i) ==
  IF i <= Len(s) /\ ~IsSpace(s[i]) THEN SkipNonSpace(s, i + 1) ELSE i

\* The first position at or after i that holds no [\d.] character.
RECURSIVE SkipNumeric(_, _)
SkipNumeric(s, i) ==
  IF i <= Len(s) /\ IsNumeric(s[i]) THEN SkipNumeric(s, i + 1) ELSE i

\* ------------------------------------------------------------------------
\* String constants of the program
\* ------------------------------------------------------------------------
\* "PASS"
PASS == <<"P", "A", "S", "S">>
\* "FAIL"
FAIL == <<"F", "A", "I", "L">>
\* "SKIP"
SKIP == <<"S", "K", "I", "P">>
\* "=== RUN"
RunMarker == <<"=", "=", "=", " ", "R", "U", "N">>
\* "--- "
FinishMarker == <<"-", "-", "-", " ">>
\* "Error:"
ErrorMarker == <<"E", "r", "r", "o", "r", ":">>
\* "Run [backtick]go test[backtick] with -v"
PanicMessage ==
  <<"R", "u", "n", " ", "U+0060", "g", "o", " ", "t", "e", "s", "t", "U+0060", " ",
    "w", "i", "t", "h", " ", "-", "v">>

\* The nil result of FindStringSubmatch.
NoMatch == <<>>

\* ------------------------------------------------------------------------
\* Parsing: the four line patterns.  Each returns NoMatch or the submatches
\* <<whole match, group 1, ...>> as FindStringSubmatch does.
\* ------------------------------------------------------------------------
\* Mutant of cruftPattern: ^(PASS)$.
cruftPatternPassOnly(input) == input = PASS

\* ^(PASS|FAIL)$
cruftPattern(input) == input = PASS \/ input = FAIL

\* ^=== RUN\s+(\S+)
testRunPattern(input) ==
  IF ~HasPrefixAt(input, RunMarker, 1) THEN NoMatch
  ELSE LET a == Len(RunMarker) + 1
           b == SkipSpace(input, a)
           c == SkipNonSpace(input, b)
       IN IF b > a /\ c > b
          THEN <<SubSeq(input, 1, c - 1), SubSeq(input, b, c - 1)>>
          ELSE NoMatch

\* ^--- (PASS|FAIL|SKIP):\s+(\S+) \(([\d.]+)s\)
testFinishPattern(input) ==
  IF ~( /\ HasPrefixAt(input, FinishMarker, 1)
        /\ \E st \in {PASS, FAIL, SKIP} : HasPrefixAt(input, st, 5)
        /\ HasPrefixAt(input, <<":">>, 9) )
  THEN NoMatch
  ELSE LET a == 10
           b == SkipSpace(input, a)
           c == SkipNonSpace(input, b)
           d == c + 2
           e == SkipNumeric(input, d)
       IN IF /\ b > a
             /\ c > b
             /\ HasPrefixAt(input, <<" ", "(">>, c)
             /\ e > d
             /\ HasPrefixAt(input, <<"s", ")">>, e)
          THEN <<SubSeq(input, 1, e + 1), SubSeq(input, 5, 8),
                 SubSeq(input, b, c - 1), SubSeq(input, d, e - 1)>>
          ELSE NoMatch

\* ^(ok|FAIL|\?)\s+(\S+)
packageFinishPattern(input) ==
  LET verdicts == {v \in {<<"o", "k">>, FAIL, <<"?">>} : HasPrefixAt(input, v, 1)}
  IN IF verdicts = {} THEN NoMatch
     ELSE LET v == CHOOSE x \in verdicts : TRUE
              a == Len(v) + 1
              b == SkipSpace(input, a)
              c == SkipNonSpace(input, b)
          IN IF b > a /\ c > b
             THEN <<SubSeq(input, 1, c - 1), v, SubSeq(input, b, c - 1)>>
             ELSE NoMatch

\* ------------------------------------------------------------------------
\* Escaping
\* ------------------------------------------------------------------------
\* Mutant of specialCharsPattern: the bar is not special, \n|\r|\[|\]|'.
specialCharsPatternNoBar(c) == c \in {"\n", "\r", "[", "]", "'"}

\* \n|\r|\[|\]|\||'
specialCharsPattern(c) == c \in {"\n", "\r", "[", "]", "|", "'"}

\* Mutant of nonAsciiCharsPattern: the class stops below the space, [\x00-\x1f].
nonAsciiCharsPatternBelowSpace(c) ==
  \/ CodePoint(c) \in 0..31
  \/ CodePoint(c) \in 128..65535

\* [\x00-\x20]|[\x80-\x{ffff}]
nonAsciiCharsPattern(c) ==
  \/ CodePoint(c) \in 0..32
  \/ CodePoint(c) \in 128..65535

HexDigits ==
  <<"0", "1", "2", "3", "4", "5", "6", "7", "8", "9", "a", "b", "c", "d", "e", "f">>

\* fmt.Sprintf("%04x", b) for a byte b.
Hex04(b) ==
  <<"0", "0", HexDigits[(b \div 16) + 1], HexDigits[(b % 16) + 1]>>

specEscape(in) ==
  IF in = "\n" THEN <<"|", "n">>
  ELSE IF in = "\r" THEN <<"|", "r">>
  ELSE <<"|", in>>

\* Mutant of unicodeEscape: the low byte of the code point, byte([]rune(in)[0]).
unicodeEscapeCodePoint(in) == <<"|", "0", "x">> \o Hex04(CodePoint(in) % 256)

\* fmt.Sprintf("|0x%04x", byte(in[0]))
unicodeEscape(in) == <<"|", "0", "x">> \o Hex04(FirstByte(in))

\* First pass of escape: specialCharsPattern.ReplaceAllStringFunc(input, specEscape).
RECURSIVE ReplaceSpecial(_)
ReplaceSpecial(s) ==
  IF s = <<>> THEN <<>>
  ELSE (IF specialCharsPattern(Head(s)) THEN specEscape(Head(s)) ELSE <<Head(s)>>)
       \o ReplaceSpecial(Tail(s))

\* Second pass of escape: nonAsciiCharsPattern.ReplaceAllStringFunc(input, unicodeEscape).
RECURSIVE ReplaceNonAscii(_)
ReplaceNonAscii(s) ==
  IF s = <<>> THEN <<>>
  ELSE (IF nonAsciiCharsPattern(Head(s)) THEN unicodeEscape(Head(s)) ELSE <<Head(s)>>)
       \o ReplaceNonAscii(Tail(s))

escape(input) == ReplaceNonAscii(ReplaceSpecial(input))

\* ------------------------------------------------------------------------
\* Durations.  A float is the record [mant, exp] with value mant / 2^exp; a
\* float32 has mant = 0 or 2^23 <= mant < 2^24.  The model covers the texts
\* with at most two digits after the point and a value below 2^21.
\* ------------------------------------------------------------------------
FloatZero == [mant |-> 0, exp |-> 0]

Digits == <<"0", "1", "2", "3", "4", "5", "6", "7", "8", "9">>

DigitValue(c) == (CHOOSE i \in 1..10 : Digits[i] = c) - 1

\* The digits of a duration text, without the points.
DigitsOf(text) == SelectSeq(text, LAMBDA c : c # ".")

\* The value of a sequence of decimal digits.
RECURSIVE DecimalValue(_)
DecimalValue(ds) ==
  IF ds = <<>> THEN 0
  ELSE 10 * DecimalValue(SubSeq(ds, 1, Len(ds) - 1)) + DigitValue(ds[Len(ds)])

\* The number of digits after the point.
FractionDigits(text) ==
  IF \E i \in 1..Len(text) : text[i] = "."
  THEN Len(text) - (CHOOSE i \in 1..Len(text) : text[i] = ".")
  ELSE 0

\* strconv.ParseFloat accepts the text: at most one point, at least one digit.
ValidFloatSyntax(text) ==
  /\ Cardinality({i \in 1..Len(text) : text[i] = "."}) <= 1
  /\ DigitsOf(text) # <<>>

\* The least exp with num * 2^exp >= 2^23 * den (num > 0).
RECURSIVE NormalExp(_, _, _)
NormalExp(num, den, exp) ==
  IF num >= 8388608 * den THEN exp ELSE NormalExp(2 * num, den, exp + 1)

\* The float32 nearest to num / den, ties to even.
RoundFloat32(num, den) ==
  IF num = 0 THEN FloatZero
  ELSE LET exp == NormalExp(num, den, 0)
           scaled == num * (2 ^ exp)
           q == scaled \div den
           r == scaled % den
           m == IF 2 * r > den \/ (2 * r = den /\ q % 2 = 1) THEN q + 1 ELSE q
       IN IF m = 16777216 THEN [mant |-> 8388608, exp |-> exp - 1]
          ELSE [mant |-> m, exp |-> exp]

\* Mutant of ParseFloat32: the longest prefix that is a number is parsed, and
\* what follows it is ignored.
ParseFloat32Prefix(text) ==
  LET points == {i \in 1..Len(text) : text[i] = "."}
      second == {i \in points : \E j \in points : j < i}
      prefix == IF second = {} THEN text
                ELSE SubSeq(text, 1, (CHOOSE i \in second : \A j \in second : i <= j) - 1)
  IN IF DigitsOf(prefix) = <<>> THEN FloatZero
     ELSE RoundFloat32(DecimalValue(DigitsOf(prefix)), 10 ^ FractionDigits(prefix))

\* test.durationSec, _ = strconv.ParseFloat(text, 32): 0 on a syntax error.
ParseFloat32(text) ==
  IF ~ValidFloatSyntax(text) THEN FloatZero
  ELSE RoundFloat32(DecimalValue(DigitsOf(text)), 10 ^ FractionDigits(text))

\* int(durationSec * 1000): the float64 product is exact, the conversion truncates.
DurationMillis(d) ==
  IF d.exp >= 3 THEN (d.mant * 125) \div (2 ^ (d.exp - 3))
  ELSE d.mant * 125 * (2 ^ (3 - d.exp))

\* fmt.Sprintf("%d", n) for n >= 0.
RECURSIVE FormatInt(_)
FormatInt(n) ==
  IF n < 10 THEN <<Digits[n + 1]>>
  ELSE FormatInt(n \div 10) \o <<Digits[(n % 10) + 1]>>

\* ------------------------------------------------------------------------
\* Lines and text
\* ------------------------------------------------------------------------
\* strings.Join(lines, "\n")
RECURSIVE Join(_)
Join(lines) ==
  IF lines = <<>> THEN <<>>
  ELSE IF Len(lines) = 1 THEN lines[1]
  ELSE lines[1] \o <<"\n">> \o Join(Tail(lines))

\* strings.Split(text, "\n")
RECURSIVE Split(_)
Split(text) ==
  IF \E i \in 1..Len(text) : text[i] = "\n"
  THEN LET i == CHOOSE j \in 1..Len(text) :
                  text[j] = "\n" /\ \A k \in 1..(j - 1) : text[k] # "\n"
       IN <<SubSeq(text, 1, i - 1)>> \o Split(SubSeq(text, i + 1, Len(text)))
  ELSE <<text>>

\* strings.TrimSpace
RECURSIVE TrimSpace(_)
TrimSpace(s) ==
  IF s = <<>> THEN s
  ELSE IF IsUnicodeSpace(Head(s)) THEN TrimSpace(Tail(s))
  ELSE IF IsUnicodeSpace(s[Len(s)]) THEN TrimSpace(SubSeq(s, 1, Len(s) - 1))
  ELSE s

\* The end (exclusive) of the line that holds position p.
RECURSIVE LineEnd(_, _)
LineEnd(text, p) ==
  IF p <= Len(text) /\ text[p] # "\n" THEN LineEnd(text, p + 1) ELSE p

\* Where (.+)$ can start for a match of (?m)Error:\s+(.+)$ that begins at i:
\* after at least one \s character, on a character other than newline.
ErrorRestStarts(text, i) ==
  LET a == i + Len(ErrorMarker)
      b == SkipSpace(text, a)
  IN IF HasPrefixAt(text, ErrorMarker, i)
     THEN {p \in (a + 1)..b : p <= Len(text) /\ text[p] # "\n"}
     ELSE {}

\* regexp.MustCompile("(?m)Error:\s+(.+)$").FindString(text): the leftmost match,
\* \s+ as long as it can be, (.+) to the end of its line; "" when there is none.
errorPattern(text) ==
  LET starts == {i \in 1..Len(text) : ErrorRestStarts(text, i) # {}}
  IN IF starts = {} THEN <<>>
     ELSE LET i == CHOOSE x \in starts : \A y \in starts : x <= y
              p == CHOOSE x \in ErrorRestStarts(text, i) :
                     \A y \in ErrorRestStarts(text, i) : x >= y
          IN SubSeq(text, i, LineEnd(text, p) - 1)

\* The message of a failed test (flush, the FAIL branch).
failureMessage(testOutput) ==
  LET message == errorPattern(testOutput)
  IN IF Len(message) = 0 THEN TrimSpace(Split(testOutput)[1]) ELSE message

\* ------------------------------------------------------------------------
\* Service messages
\* ------------------------------------------------------------------------
\* "##teamcity[testStarted name='"
TestStartedHead ==
  <<"#", "#", "t", "e", "a", "m", "c", "i", "t", "y", "[", "t", "e", "s", "t",
    "S", "t", "a", "r", "t", "e", "d", " ", "n", "a", "m", "e", "=", "'">>
\* "' captureStandardOutput='true']"
TestStartedTail ==
  <<"'", " ", "c", "a", "p", "t", "u", "r", "e", "S", "t", "a", "n", "d", "a", "r", "d",
    "O", "u", "t", "p", "u", "t", "=", "'", "t", "r", "u", "e", "'", "]">>
\* "##teamcity[testFailed name='"
TestFailedHead ==
  <<"#", "#", "t", "e", "a", "m", "c", "i", "t", "y", "[", "t", "e", "s", "t",
    "F", "a", "i", "l", "e", "d", " ", "n", "a", "m", "e", "=", "'">>
\* "' message='"
MessageAttr == <<"'", " ", "m", "e", "s", "s", "a", "g", "e", "=", "'">>
\* "##teamcity[testIgnored name='"
TestIgnoredHead ==
  <<"#", "#", "t", "e", "a", "m", "c", "i", "t", "y", "[", "t", "e", "s", "t",
    "I", "g", "n", "o", "r", "e", "d", " ", "n", "a", "m", "e", "=", "'">>
\* "##teamcity[testFinished name='"
TestFinishedHead ==
  <<"#", "#", "t", "e", "a", "m", "c", "i", "t", "y", "[", "t", "e", "s", "t",
    "F", "i", "n", "i", "s", "h", "e", "d", " ", "n", "a", "m", "e", "=", "'">>
\* "' duration='"
DurationAttr == <<"'", " ", "d", "u", "r", "a", "t", "i", "o", "n", "=", "'">>
\* "##teamcity[testSuiteStarted name='"
SuiteStartedHead ==
  <<"#", "#", "t", "e", "a", "m", "c", "i", "t", "y", "[", "t", "e", "s", "t",
    "S", "u", "i", "t", "e", "S", "t", "a", "r", "t", "e", "d", " ", "n", "a", "m", "e", "=", "'">>
\* "##teamcity[testSuiteFinished name='"
SuiteFinishedHead ==
  <<"#", "#", "t", "e", "a", "m", "c", "i", "t", "y", "[", "t", "e", "s", "t",
    "S", "u", "i", "t", "e", "F", "i", "n", "i", "s", "h", "e", "d", " ", "n", "a", "m", "e", "=", "'">>
\* "']"
MessageTail == <<"'", "]">>

testStartedLine(name) == TestStartedHead \o escape(name) \o TestStartedTail

testFailedLine(name, message) ==
  TestFailedHead \o escape(name) \o MessageAttr \o escape(message) \o MessageTail

testIgnoredLine(name) == TestIgnoredHead \o escape(name) \o MessageTail

testFinishedLine(name, durationSec) ==
  TestFinishedHead \o escape(name) \o DurationAttr
    \o FormatInt(DurationMillis(durationSec)) \o MessageTail

testSuiteStartedLine(name) == SuiteStartedHead \o escape(name) \o MessageTail

testSuiteFinishedLine(name) == SuiteFinishedHead \o escape(name) \o MessageTail

\* ------------------------------------------------------------------------
\* State
\* ------------------------------------------------------------------------
VARIABLES
  pc,                 \* "scan": in the read loop; "done": input ended; "panic": panicked
  heap,               \* the testResult objects allocated so far; a pointer is an index
  packageTestBuffer,  \* []*testResult of the package being read
  capturingTest,      \* *testResult that takes the output lines, or nil
  stdout,             \* the lines written to standard output
  panicValue,         \* the value main panicked with, <<>> while it has not
  consumed,           \* history: the lines scanner.Text() has returned
  origin              \* history: for each line of stdout, what wrote it

vars ==
  <<pc, heap, packageTestBuffer, capturingTest, stdout, panicValue, consumed, origin>>

\* The nil pointer.
nil == 0

\* &testResult{name: name}
testResult(name) ==
  [name |-> name, status |-> <<>>, output |-> <<>>, durationSec |-> FloatZero]

\* What wrote a line of stdout: the input line being processed (its number),
\* the kind of line, and the test it belongs to (nil for none).
Wrote(kind, test) == [src |-> Len(consumed) + 1, kind |-> kind, test |-> test]

\* ------------------------------------------------------------------------
\* Flushing
\* ------------------------------------------------------------------------
\* The status-specific message of testResult.flush.
statusLines(test) ==
  IF test.status = PASS THEN <<>>
  ELSE IF test.status = FAIL
       THEN <<testFailedLine(test.name, failureMessage(Join(test.output)))>>
  ELSE IF test.status = SKIP THEN <<testIgnoredLine(test.name)>>
  ELSE <<>>

\* fmt.Println(testOutput), when len(test.output) > 0.
outputLines(test) ==
  IF Len(test.output) > 0 THEN Split(Join(test.output)) ELSE <<>>

\* testResult.flush: the lines it writes.
flush(test) ==
  <<testStartedLine(test.name)>>
    \o outputLines(test)
    \o statusLines(test)
    \o <<testFinishedLine(test.name, test.durationSec)>>

\* The history entries for the lines of flush(heap[t]).
flushOrigin(t) ==
  <<Wrote("testStarted", t)>>
    \o [i \in 1..Len(outputLines(heap[t])) |-> Wrote("output", t)]
    \o [i \in 1..Len(statusLines(heap[t])) |->
          Wrote(IF heap[t].status = FAIL THEN "testFailed" ELSE "testIgnored", t)]
    \o <<Wrote("testFinished", t)>>

\* Mutant of flushAll: the tests are written last started first.
RECURSIVE flushAllReversed(_)
flushAllReversed(results) ==
  IF results = <<>> THEN <<>>
  ELSE flushAllReversed(Tail(results)) \o flush(heap[Head(results)])

\* The loop of flushPackage over results.
RECURSIVE flushAll(_)
flushAll(results) ==
  IF results = <<>> THEN <<>>
  ELSE flush(heap[Head(results)]) \o flushAll(Tail(results))

RECURSIVE flushAllOrigin(_)
flushAllOrigin(results) ==
  IF results = <<>> THEN <<>>
  ELSE flushOrigin(Head(results)) \o flushAllOrigin(Tail(results))

\* Mutant of flushPackage: the testSuiteFinished line is written before the tests.
flushPackageFinishedFirst(name, results) ==
  <<testSuiteStartedLine(name)>>
    \o <<testSuiteFinishedLine(name)>>
    \o flushAll(results)

\* flushPackage: the lines it writes.
flushPackage(name, results) ==
  <<testSuiteStartedLine(name)>>
    \o flushAll(results)
    \o <<testSuiteFinishedLine(name)>>

flushPackageOrigin(results) ==
  <<Wrote("testSuiteStarted", nil)>>
    \o flushAllOrigin(results)
    \o <<Wrote("testSuiteFinished", nil)>>

\* findTest: the first test of results with the name, or nil.
findTest(name, results) ==
  IF \E i \in 1..Len(results) : heap[results[i]].name = name
  THEN results[CHOOSE i \in 1..Len(results) :
                 /\ heap[results[i]].name = name
                 /\ \A j \in 1..(i - 1) : heap[results[j]].name # name]
  ELSE nil

\* ------------------------------------------------------------------------
\* The read loop of main: one action per branch of its body
\* ------------------------------------------------------------------------
Init ==
  /\ pc = "scan"
  /\ heap = <<>>
  /\ packageTestBuffer = <<>>
  /\ capturingTest = nil
  /\ stdout = <<>>
  /\ panicValue = <<>>
  /\ consumed = <<>>
  /\ origin = <<>>

\* scanner.Scan() returned true and scanner.Text() is input.
Scanned(input) ==
  /\ pc = "scan"
  /\ consumed' = Append(consumed, input)

\* if cruftPattern.MatchString(input): the line is dropped.
Cruft(input) ==
  /\ Scanned(input)
  /\ cruftPattern(input)
  /\ UNCHANGED <<pc, heap, packageTestBuffer, capturingTest, stdout, panicValue, origin>>

\* Mutant of TestRun: the capturing test is not reset.
TestRunKeepsCapturing(input) ==
  /\ Scanned(input)
  /\ ~cruftPattern(input)
  /\ testRunPattern(input) # NoMatch
  /\ heap' = Append(heap, testResult(testRunPattern(input)[2]))
  /\ packageTestBuffer' = Append(packageTestBuffer, Len(heap) + 1)
  /\ UNCHANGED <<pc, capturingTest, stdout, panicValue, origin>>

\* else if match := testRunPattern.FindStringSubmatch(input); match != nil
TestRun(input) ==
  /\ Scanned(input)
  /\ ~cruftPattern(input)
  /\ testRunPattern(input) # NoMatch
  /\ capturingTest' = nil
  /\ heap' = Append(heap, testResult(testRunPattern(input)[2]))
  /\ packageTestBuffer' = Append(packageTestBuffer, Len(heap) + 1)
  /\ UNCHANGED <<pc, stdout, panicValue, origin>>

\* else if match := testFinishPattern.FindStringSubmatch(input); match != nil,
\* and findTest found the test.
TestFinish(input) ==
  /\ Scanned(input)
  /\ ~cruftPattern(input)
  /\ testRunPattern(input) = NoMatch
  /\ testFinishPattern(input) # NoMatch
  /\ LET match == testFinishPattern(input)
         test == findTest(match[3], packageTestBuffer)
     IN /\ test # nil
        /\ heap' = [heap EXCEPT ![test].durationSec = ParseFloat32(match[4]),
                                ![test].status = match[2]]
        /\ capturingTest' = IF match[2] = FAIL THEN test ELSE capturingTest
  /\ UNCHANGED <<pc, packageTestBuffer, stdout, panicValue, origin>>

\* Mutant of TestFinishPanic: the line is skipped and the loop goes on.
TestFinishSkipped(input) ==
  /\ Scanned(input)
  /\ ~cruftPattern(input)
  /\ testRunPattern(input) = NoMatch
  /\ testFinishPattern(input) # NoMatch
  /\ findTest(testFinishPattern(input)[3], packageTestBuffer) = nil
  /\ UNCHANGED <<pc, heap, packageTestBuffer, capturingTest, stdout, panicValue, origin>>

\* Mutant of TestFinishPanic: the panic value names the test.
TestFinishPanicNamed(input) ==
  /\ Scanned(input)
  /\ ~cruftPattern(input)
  /\ testRunPattern(input) = NoMatch
  /\ testFinishPattern(input) # NoMatch
  /\ findTest(testFinishPattern(input)[3], packageTestBuffer) = nil
  /\ pc' = "panic"
  /\ panicValue' = PanicMessage \o <<":", " ">> \o testFinishPattern(input)[3]
  /\ UNCHANGED <<heap, packageTestBuffer, capturingTest, stdout, origin>>

\* The same branch when findTest returns nil: panic("Run ... with -v").
TestFinishPanic(input) ==
  /\ Scanned(input)
  /\ ~cruftPattern(input)
  /\ testRunPattern(input) = NoMatch
  /\ testFinishPattern(input) # NoMatch
  /\ findTest(testFinishPattern(input)[3], packageTestBuffer) = nil
  /\ pc' = "panic"
  /\ panicValue' = PanicMessage
  /\ UNCHANGED <<heap, packageTestBuffer, capturingTest, stdout, origin>>

\* Mutant of PackageFinish: capturingTest is not reset.
PackageFinishKeepsCapturing(input) ==
  /\ Scanned(input)
  /\ ~cruftPattern(input)
  /\ testRunPattern(input) = NoMatch
  /\ testFinishPattern(input) = NoMatch
  /\ packageFinishPattern(input) # NoMatch
  /\ stdout' = stdout \o flushPackage(packageFinishPattern(input)[3], packageTestBuffer)
  /\ origin' = origin \o flushPackageOrigin(packageTestBuffer)
  /\ packageTestBuffer' = <<>>
  /\ UNCHANGED <<pc, heap, capturingTest, panicValue>>

\* Mutant of PackageFinish: the capturing branch is tried first, so a
\* PackageFinished line read while a test is capturing is added to its output.
PackageFinishUnlessCapturing(input) ==
  /\ Scanned(input)
  /\ ~cruftPattern(input)
  /\ testRunPattern(input) = NoMatch
  /\ testFinishPattern(input) = NoMatch
  /\ packageFinishPattern(input) # NoMatch
  /\ IF capturingTest # nil
     THEN /\ heap' = [heap EXCEPT ![capturingTest].output = Append(@, input)]
          /\ UNCHANGED <<pc, packageTestBuffer, capturingTest, stdout, panicValue, origin>>
     ELSE /\ capturingTest' = nil
          /\ stdout' = stdout \o flushPackage(packageFinishPattern(input)[3], packageTestBuffer)
          /\ origin' = origin \o flushPackageOrigin(packageTestBuffer)
          /\ packageTestBuffer' = <<>>
          /\ UNCHANGED <<pc, heap, panicValue>>

\* Mutant of PackageFinish: the buffer is not emptied after the flush.
PackageFinishKeepsBuffer(input) ==
  /\ Scanned(input)
  /\ ~cruftPattern(input)
  /\ testRunPattern(input) = NoMatch
  /\ testFinishPattern(input) = NoMatch
  /\ packageFinishPattern(input) # NoMatch
  /\ capturingTest' = nil
  /\ stdout' = stdout \o flushPackage(packageFinishPattern(input)[3], packageTestBuffer)
  /\ origin' = origin \o flushPackageOrigin(packageTestBuffer)
  /\ UNCHANGED <<pc, heap, packageTestBuffer, panicValue>>

\* else if match := packageFinishPattern.FindStringSubmatch(input); match != nil
PackageFinish(input) ==
  /\ Scanned(input)
  /\ ~cruftPattern(input)
  /\ testRunPattern(input) = NoMatch
  /\ testFinishPattern(input) = NoMatch
  /\ packageFinishPattern(input) # NoMatch
  /\ capturingTest' = nil
  /\ stdout' = stdout \o flushPackage(packageFinishPattern(input)[3], packageTestBuffer)
  /\ origin' = origin \o flushPackageOrigin(packageTestBuffer)
  /\ packageTestBuffer' = <<>>
  /\ UNCHANGED <<pc, heap, panicValue>>

\* else if capturingTest != nil: the line is added to the capturing test's output.
CaptureOutput(input) ==
  /\ Scanned(input)
  /\ ~cruftPattern(input)
  /\ testRunPattern(input) = NoMatch
  /\ testFinishPattern(input) = NoMatch
  /\ packageFinishPattern(input) = NoMatch
  /\ capturingTest # nil
  /\ heap' = [heap EXCEPT ![capturingTest].output = Append(@, input)]
  /\ UNCHANGED <<pc, packageTestBuffer, capturingTest, stdout, panicValue, origin>>

\* Mutant of PassThrough: the line is written escaped.
PassThroughEscaped(input) ==
  /\ Scanned(input)
  /\ ~cruftPattern(input)
  /\ testRunPattern(input) = NoMatch
  /\ testFinishPattern(input) = NoMatch
  /\ packageFinishPattern(input) = NoMatch
  /\ capturingTest = nil
  /\ stdout' = Append(stdout, escape(input))
  /\ origin' = Append(origin, Wrote("passthrough", nil))
  /\ UNCHANGED <<pc, heap, packageTestBuffer, capturingTest, panicValue>>

\* else: fmt.Println(input).
PassThrough(input) ==
  /\ Scanned(input)
  /\ ~cruftPattern(input)
  /\ testRunPattern(input) = NoMatch
  /\ testFinishPattern(input) = NoMatch
  /\ packageFinishPattern(input) = NoMatch
  /\ capturingTest = nil
  /\ stdout' = Append(stdout, input)
  /\ origin' = Append(origin, Wrote("passthrough", nil))
  /\ UNCHANGED <<pc, heap, packageTestBuffer, capturingTest, panicValue>>

\* Mutant of EndOfInput: the tests still in the buffer are flushed when the
\* input ends.
EndOfInputFlushes ==
  /\ pc = "scan"
  /\ pc' = "done"
  /\ stdout' = stdout \o flushAll(packageTestBuffer)
  /\ origin' = origin \o flushAllOrigin(packageTestBuffer)
  /\ UNCHANGED <<heap, packageTestBuffer, capturingTest, panicValue, consumed>>

\* scanner.Scan() returned false: the loop and main end.
EndOfInput ==
  /\ pc = "scan"
  /\ pc' = "done"
  /\ UNCHANGED <<heap, packageTestBuffer, capturingTest, stdout, panicValue, consumed, origin>>

\* ------------------------------------------------------------------------
\* Inputs
\* ------------------------------------------------------------------------
\* "=== RUN T1"
RunT1 == <<"=", "=", "=", " ", "R", "U", "N", " ", "T", "1">>
\* "=== RUN T2"
RunT2 == <<"=", "=", "=", " ", "R", "U", "N", " ", "T", "2">>
\* "--- PASS: T1 (0.01s)"
PassT1 ==
  <<"-", "-", "-", " ", "P", "A", "S", "S", ":", " ", "T", "1", " ", "(", "0", ".", "0", "1", "s", ")">>
\* "--- FAIL: T1 (0.01s)"
FailT1 ==
  <<"-", "-", "-", " ", "F", "A", "I", "L", ":", " ", "T", "1", " ", "(", "0", ".", "0", "1", "s", ")">>
\* "--- SKIP: T1 (0.01s)"
SkipT1 ==
  <<"-", "-", "-", " ", "S", "K", "I", "P", ":", " ", "T", "1", " ", "(", "0", ".", "0", "1", "s", ")">>
\* "--- PASS: T2 (0.02s)"
PassT2 ==
  <<"-", "-", "-", " ", "P", "A", "S", "S", ":", " ", "T", "2", " ", "(", "0", ".", "0", "2", "s", ")">>
\* "--- FAIL: T2 (0.02s)"
FailT2 ==
  <<"-", "-", "-", " ", "F", "A", "I", "L", ":", " ", "T", "2", " ", "(", "0", ".", "0", "2", "s", ")">>
\* "Error: boom"
ErrorBoom == <<"E", "r", "r", "o", "r", ":", " ", "b", "o", "o", "m">>
\* "##teamcity[x]"
LooksLikeMessage == <<"#", "#", "t", "e", "a", "m", "c", "i", "t", "y", "[", "x", "]">>
\* "ok pkg 0.03s"
OkPkg == <<"o", "k", " ", "p", "k", "g", " ", "0", ".", "0", "3", "s">>
\* "FAIL p2"
FailP2 == <<"F", "A", "I", "L", " ", "p", "2">>

\* The lines the input is drawn from.
Lines ==
  {RunT1, RunT2, PassT1, FailT1, SkipT1, FailT2,
   ErrorBoom, LooksLikeMessage, OkPkg, PASS, FAIL}

\* The lines of the two-test scenario, and a cruft line.
ScenarioLines == {RunT1, RunT2, PassT1, FailT2, ErrorBoom, OkPkg, PASS}

\* Two tests, two packages, a line of output and a cruft line.
SuiteLines == {RunT1, RunT2, FailT1, PassT2, ErrorBoom, OkPkg, FailP2, FAIL}

\* ------------------------------------------------------------------------
\* Specifications
\* ------------------------------------------------------------------------
\* The lines standard input can deliver next: any line of the alphabet, until
\* limit lines have been read.
Readable(alphabet, limit) == {input \in alphabet : Len(consumed) < limit}

Next ==
  \/ \E input \in Readable(Lines, MaxLines) : Cruft(input)
  \/ \E input \in Readable(Lines, MaxLines) : TestRun(input)
  \/ \E input \in Readable(Lines, MaxLines) : TestFinish(input)
  \/ \E input \in Readable(Lines, MaxLines) : TestFinishPanic(input)
  \/ \E input \in Readable(Lines, MaxLines) : PackageFinish(input)
  \/ \E input \in Readable(Lines, MaxLines) : CaptureOutput(input)
  \/ \E input \in Readable(Lines, MaxLines) : PassThrough(input)
  \/ EndOfInput

Spec == Init /\ [][Next]_vars

NextScenario ==
  \/ \E input \in Readable(ScenarioLines, MaxScenarioLines) : Cruft(input)
  \/ \E input \in Readable(ScenarioLines, MaxScenarioLines) : TestRun(input)
  \/ \E input \in Readable(ScenarioLines, MaxScenarioLines) : TestFinish(input)
  \/ \E input \in Readable(ScenarioLines, MaxScenarioLines) : TestFinishPanic(input)
  \/ \E input \in Readable(ScenarioLines, MaxScenarioLines) : PackageFinish(input)
  \/ \E input \in Readable(ScenarioLines, MaxScenarioLines) : CaptureOutput(input)
  \/ \E input \in Readable(ScenarioLines, MaxScenarioLines) : PassThrough(input)
  \/ EndOfInput

SpecScenario == Init /\ [][NextScenario]_vars

NextSuites ==
  \/ \E input \in Readable(SuiteLines, MaxSuiteLines) : Cruft(input)
  \/ \E input \in Readable(SuiteLines, MaxSuiteLines) : TestRun(input)
  \/ \E input \in Readable(SuiteLines, MaxSuiteLines) : TestFinish(input)
  \/ \E input \in Readable(SuiteLines, MaxSuiteLines) : TestFinishPanic(input)
  \/ \E input \in Readable(SuiteLines, MaxSuiteLines) : PackageFinish(input)
  \/ \E input \in Readable(SuiteLines, MaxSuiteLines) : CaptureOutput(input)
  \/ \E input \in Readable(SuiteLines, MaxSuiteLines) : PassThrough(input)
  \/ EndOfInput

SpecSuites == Init /\ [][NextSuites]_vars

\* ------------------------------------------------------------------------
\* Reading the history
\* ------------------------------------------------------------------------
\* The branch of the loop body a line takes, first match first.
classify(input) ==
  IF cruftPattern(input) THEN "Cruft"
  ELSE IF testRunPattern(input) # NoMatch THEN "TestStarted"
  ELSE IF testFinishPattern(input) # NoMatch THEN "TestFinished"
  ELSE IF packageFinishPattern(input) # NoMatch THEN "PackageFinished"
  ELSE "Unclassified"

\* The line read by the step that is being taken.
lastInput == consumed[Len(consumed)]

\* sub occurs in s.
Contains(s, sub) == \E i \in 1..(Len(s) + 1) : HasPrefixAt(s, sub, i)

\* The names of the TestStarted lines of a history, in order.
RECURSIVE startedNames(_)
startedNames(h) ==
  IF h = <<>> THEN <<>>
  ELSE (IF classify(Head(h)) = "TestStarted"
        THEN <<testRunPattern(Head(h))[2]>> ELSE <<>>) \o startedNames(Tail(h))

\* The positions of the TestFinished lines of a history that name the test.
finishesOf(h, name) ==
  {i \in 1..Len(h) : classify(h[i]) = "TestFinished" /\ testFinishPattern(h[i])[3] = name}

\* The positions of the TestStarted lines of a history that name the test.
startsOf(h, name) ==
  {i \in 1..Len(h) : classify(h[i]) = "TestStarted" /\ testRunPattern(h[i])[2] = name}

\* A history of one package: only TestStarted and TestFinished lines, then one
\* PackageFinished line; the started names are pairwise distinct and each is
\* finished exactly once, after its start; nothing else is finished.
OnePackage(h) ==
  /\ Len(h) >= 1
  /\ classify(h[Len(h)]) = "PackageFinished"
  /\ \A i \in 1..(Len(h) - 1) : classify(h[i]) \in {"TestStarted", "TestFinished"}
  /\ \A i \in 1..(Len(h) - 1) :
       classify(h[i]) = "TestStarted" =>
         /\ Cardinality(startsOf(h, testRunPattern(h[i])[2])) = 1
         /\ Cardinality(finishesOf(h, testRunPattern(h[i])[2])) = 1
         /\ \A j \in finishesOf(h, testRunPattern(h[i])[2]) : j > i
  /\ \A i \in 1..(Len(h) - 1) :
       classify(h[i]) = "TestFinished" => startsOf(h, testFinishPattern(h[i])[3]) # {}

\* The test block the claims expect for a test that captured no output.
ExpectedBlock(h, name) ==
  LET match == testFinishPattern(h[CHOOSE i \in finishesOf(h, name) : TRUE])
  IN <<testStartedLine(name)>>
       \o (IF match[2] = FAIL THEN <<testFailedLine(name, <<>>)>>
           ELSE IF match[2] = SKIP THEN <<testIgnoredLine(name)>>
           ELSE <<>>)
       \o <<testFinishedLine(name, ParseFloat32(match[4]))>>

RECURSIVE ExpectedBlocks(_, _)
ExpectedBlocks(h, names) ==
  IF names = <<>> THEN <<>>
  ELSE ExpectedBlock(h, Head(names)) \o ExpectedBlocks(h, Tail(names))

\* The suite block expected for a history of one package.
ExpectedSuite(h) ==
  LET pkg == packageFinishPattern(h[Len(h)])[3]
  IN <<testSuiteStartedLine(pkg)>>
       \o ExpectedBlocks(h, startedNames(h))
       \o <<testSuiteFinishedLine(pkg)>>

\* ------------------------------------------------------------------------
\* C1
\* ------------------------------------------------------------------------
\* C1: when the input is N TestStarted lines with pairwise distinct names, one
\* TestFinished line for each after its start (in any order), and then one
\* PackageFinished line, standard output is exactly one suite block for that
\* package with the N test blocks in the order of the TestStarted lines, each
\* with the status line of its own test (none, testFailed or testIgnored).
C1_SuiteInStartOrder ==
  OnePackage(consumed) => stdout = ExpectedSuite(consumed)

\* Two tests finished in the reverse of their start order, then flushed.
C1_Witness ==
  /\ consumed = <<RunT1, RunT2, FailT2, SkipT1, OkPkg>>
  /\ Len(stdout) = 8
  /\ stdout[2] = testStartedLine(<<"T", "1">>)
  /\ stdout[5] = testStartedLine(<<"T", "2">>)

\* ------------------------------------------------------------------------
\* C2
\* ------------------------------------------------------------------------
\* The six input lines of the scenario.
Scenario == <<RunT1, RunT2 , PassT1, FailT2, ErrorBoom, OkPkg>>

\* line is a testFinished message for the test name, whatever its duration.
IsTestFinishedFor(line, name) ==
  /\ HasPrefixAt(line, TestFinishedHead \o name \o DurationAttr, 1)
  /\ HasPrefixAt(line, MessageTail, Len(line) - 1)

\* The output of the scenario with the given text in the message attribute.
ScenarioOutput(message) ==
  /\ Len(stdout) = 8
  /\ stdout[1] = SuiteStartedHead \o <<"p", "k", "g">> \o MessageTail
  /\ stdout[2] = TestStartedHead \o <<"T", "1">> \o TestStartedTail
  /\ IsTestFinishedFor(stdout[3], <<"T", "1">>)
  /\ stdout[4] = TestStartedHead \o <<"T", "2">> \o TestStartedTail
  /\ stdout[5] = ErrorBoom
  /\ stdout[6] = TestFailedHead \o <<"T", "2">> \o MessageAttr \o message \o MessageTail
  /\ IsTestFinishedFor(stdout[7], <<"T", "2">>)
  /\ stdout[8] = SuiteFinishedHead \o <<"p", "k", "g">> \o MessageTail

UnknownName(name) ==
  \A i \in 1..Len(packageTestBuffer) : heap[packageTestBuffer[i]].name # name

\* C3: a step that reads a TestFinished line whose name no test of the current
\* package buffer has panics and writes, buffers and captures nothing; and once
\* main has panicked no line is read, nothing is written and nothing is flushed.
C3_UnknownFinishIsFatal ==
  [][ /\ ( /\ consumed' # consumed
           /\ classify(consumed'[Len(consumed')]) = "TestFinished"
           /\ UnknownName(testFinishPattern(consumed'[Len(consumed')])[3]) )
         => /\ pc' = "panic"
            /\ consumed' = Append(consumed, consumed'[Len(consumed')])
            /\ UNCHANGED <<heap, packageTestBuffer, capturingTest, stdout, origin>>
      /\ pc = "panic" => UNCHANGED vars
    ]_vars

\* main panicked on a finish line for a test flushed with an earlier package,
\* while another test was waiting in the buffer.
C3_Witness ==
  /\ pc = "panic"
  /\ consumed = <<RunT1, OkPkg, RunT2, PassT1>>
  /\ Len(packageTestBuffer) = 1
  /\ Len(stdout) = 4

\* ------------------------------------------------------------------------
\* C4
\* ------------------------------------------------------------------------
\* C4 as stated: the value main panics with contains the unknown test name.
C4_Original ==
  pc = "panic" => Contains(panicValue, testFinishPattern(lastInput)[3])

\* C4 (amended): the value main panics with is the fixed text
\* "Run [backtick]go test[backtick] with -v", whatever the unknown test name is, so two
\* inputs that differ only in the unknown name panic with equal values; before
\* the panic there is no value.
C4_FixedDiagnostic ==
  /\ pc = "panic" =>
       /\ classify(lastInput) = "TestFinished"
       /\ panicValue = PanicMessage
  /\ pc # "panic" => panicValue = <<>>

\* main panicked on a finish line for T2, which was never started.
C4_Witness ==
  /\ pc = "panic"
  /\ consumed = <<RunT1, FailT2>>
  /\ panicValue # <<>>

\* ------------------------------------------------------------------------
\* C5
\* ------------------------------------------------------------------------
\* The first test of the current package buffer with the name.
FirstNamed(name) ==
  packageTestBuffer[CHOOSE i \in 1..Len(packageTestBuffer) :
                      /\ heap[packageTestBuffer[i]].name = name
                      /\ \A j \in 1..(i - 1) : heap[packageTestBuffer[j]].name # name]

\* h[j] is a TestFinished line with status FAIL.
IsFailFinish(h, j) ==
  /\ classify(h[j]) = "TestFinished"
  /\ testFinishPattern(h[j])[2] = FAIL

\* h[j] is a FAIL finish and no TestStarted or PackageFinished line follows it.
FailWindowOpen(h, j) ==
  /\ IsFailFinish(h, j)
  /\ \A k \in (j + 1)..Len(h) : classify(h[k]) \notin {"TestStarted", "PackageFinished"}

\* h[j] is a FAIL finish and no TestStarted, PackageFinished or FAIL-status
\* TestFinished line follows it.
LastFailWindowOpen(h, j) ==
  /\ FailWindowOpen(h, j)
  /\ \A k \in (j + 1)..Len(h) : ~IsFailFinish(h, k)

\* The step reads an Unclassified line.
ReadsUnclassified ==
  /\ consumed' # consumed
  /\ classify(consumed'[Len(consumed')]) = "Unclassified"

\* The step flushes a package, and every test of the buffer gets its
\* testStarted line directly followed by its captured lines, as they were read.
OutputFollowsTestStarted ==
  \A i \in 1..Len(packageTestBuffer) :
    LET t == packageTestBuffer[i] IN
    \E k \in (Len(stdout) + 1)..Len(stdout') :
      /\ origin'[k].kind = "testStarted"
      /\ origin'[k].test = t
      /\ stdout'[k] = testStartedLine(heap[t].name)
      /\ Len(stdout') >= k + Len(heap[t].output) + 1
      /\ SubSeq(stdout', k + 1, k + Len(heap[t].output)) = heap[t].output
      /\ origin'[k + Len(heap[t].output) + 1].kind # "output"

\* C5 as stated: after a FAIL finish for T every Unclassified line read before
\* the next TestStarted or PackageFinished line is appended to T's output and
\* not written.
C5_Original ==
  [][ ReadsUnclassified =>
        \A j \in 1..Len(consumed) :
          FailWindowOpen(consumed, j) =>
            LET t == FirstNamed(testFinishPattern(consumed[j])[3])
            IN /\ heap'[t].output = Append(heap[t].output, consumed'[Len(consumed')])
               /\ stdout' = stdout
    ]_vars

\* C5 (amended): after a FAIL finish for T every Unclassified line read before
\* the next TestStarted, PackageFinished or FAIL-status TestFinished line is
\* appended, in arrival order, to the output of T (the first buffered test of
\* that name) and is not written when it is read; a flush writes the captured
\* lines of each test verbatim directly after its testStarted line; and a
\* test's output changes only by such an append.
C5_CaptureAfterFail ==
  [][ /\ ReadsUnclassified =>
           \A j \in 1..Len(consumed) :
             LastFailWindowOpen(consumed, j) =>
               LET t == FirstNamed(testFinishPattern(consumed[j])[3])
               IN /\ heap'[t].output = Append(heap[t].output, consumed'[Len(consumed')])
                  /\ stdout' = stdout
      /\ ( /\ consumed' # consumed
           /\ classify(consumed'[Len(consumed')]) = "PackageFinished" )
           => OutputFollowsTestStarted
      /\ \A t \in 1..Len(heap) :
           heap'[t].output # heap[t].output =>
             /\ ReadsUnclassified
             /\ heap'[t].output = Append(heap[t].output, consumed'[Len(consumed')])
             /\ \E j \in 1..Len(consumed) :
                  /\ LastFailWindowOpen(consumed, j)
                  /\ testFinishPattern(consumed[j])[3] = heap[t].name
                  /\ t = FirstNamed(heap[t].name)
    ]_vars

\* T1 failed, a line shaped like a service message was captured and not
\* written when read, and the flush wrote it unescaped after T1's testStarted.
C5_Witness ==
  /\ consumed = <<RunT1, FailT1, LooksLikeMessage, ErrorBoom, OkPkg>>
  /\ heap[1].output = <<LooksLikeMessage, ErrorBoom>>
  /\ stdout[2] = testStartedLine(<<"T", "1">>)
  /\ stdout[3] = LooksLikeMessage
  /\ stdout[4] = ErrorBoom

\* ------------------------------------------------------------------------
\* C6
\* ------------------------------------------------------------------------
\* C6 as stated: a step that reads a TestFinished line for a buffered test
\* leaves that test capturing when the status is FAIL and no test capturing
\* otherwise.
C6_Original ==
  [][ ( /\ consumed' # consumed
        /\ classify(consumed'[Len(consumed')]) = "TestFinished"
        /\ ~UnknownName(testFinishPattern(consumed'[Len(consumed')])[3]) )
      => LET match == testFinishPattern(consumed'[Len(consumed')])
         IN capturingTest' = IF match[2] = FAIL THEN FirstNamed(match[3]) ELSE nil
    ]_vars

\* ------------------------------------------------------------------------
\* C7
\* ------------------------------------------------------------------------
\* No line written and no line captured is exactly PASS or FAIL.
NoCruftKept ==
  /\ \A i \in 1..Len(stdout) : stdout[i] \notin {PASS, FAIL}
  /\ \A t \in 1..Len(heap) :
       \A i \in 1..Len(heap[t].output) : heap[t].output[i] \notin {PASS, FAIL}

\* C7: a line that is exactly PASS or FAIL is never written and never
\* captured, and the step that reads it changes nothing but the read position:
\* the buffer, every test, the capturing test and standard output stay as they
\* were, also while a failed test is capturing.
C7_CruftDropped ==
  /\ []NoCruftKept
  /\ [][ ( /\ consumed' # consumed
           /\ consumed'[Len(consumed')] \in {PASS, FAIL} )
         => UNCHANGED <<pc, heap, packageTestBuffer, capturingTest, stdout, panicValue, origin>>
       ]_vars

\* A bare FAIL was read while the failed test T1 was capturing.
C7_Witness ==
  /\ consumed = <<RunT1, FailT1, ErrorBoom, FAIL>>
  /\ capturingTest = 1
  /\ heap[1].output = <<ErrorBoom>>
  /\ stdout = <<>>

\* ------------------------------------------------------------------------
\* C8
\* ------------------------------------------------------------------------
\* Lines are written in the order of the input lines that caused them, and a
\* passthrough line is the input line itself.
PassThroughInOrder ==
  /\ Len(origin) = Len(stdout)
  /\ \A i \in 1..Len(origin) :
       /\ origin[i].src \in 1..Len(consumed)
       /\ \A j \in (i + 1)..Len(origin) : origin[i].src <= origin[j].src
       /\ origin[i].kind = "passthrough" =>
            /\ stdout[i] = consumed[origin[i].src]
            /\ \A j \in (i + 1)..Len(origin) : origin[i].src < origin[j].src

\* C8: the step that reads an Unclassified line while no test is capturing
\* writes exactly that line, unchanged, at the end of standard output and
\* leaves the buffer, the tests and the capturing test as they were; so the
\* passthrough lines stand in standard output in arrival order, before
\* anything a later line causes.
C8_PassThrough ==
  /\ []PassThroughInOrder
  /\ [][ (ReadsUnclassified /\ capturingTest = nil)
         => /\ stdout' = Append(stdout, consumed'[Len(consumed')])
            /\ UNCHANGED <<pc, heap, packageTestBuffer, capturingTest>>
       ]_vars

\* Two lines passed through around a buffered test, before its suite.
C8_Witness ==
  /\ consumed = <<LooksLikeMessage, RunT1, ErrorBoom, OkPkg>>
  /\ Len(stdout) = 6
  /\ stdout[1] = LooksLikeMessage
  /\ stdout[2] = ErrorBoom
  /\ origin[3].kind = "testSuiteStarted"

\* ------------------------------------------------------------------------
\* C9
\* ------------------------------------------------------------------------
\* The positions of the PackageFinished lines read so far.
PackagePositions ==
  {p \in 1..Len(consumed) : classify(consumed[p]) = "PackageFinished"}

\* The positions of the TestStarted lines read so far.
StartPositions ==
  {p \in 1..Len(consumed) : classify(consumed[p]) = "TestStarted"}

\* The position of the TestStarted line that allocated the test t: the t-th one.
StartPosition(t) ==
  CHOOSE p \in StartPositions : Cardinality({q \in StartPositions : q <= p}) = t

\* The PackageFinished lines read after the test t was started.
PackagesAfter(t) == {p \in PackagePositions : p > StartPosition(t)}

\* The lines of standard output of the given kind.
LinesOfKind(kind) == {i \in 1..Len(origin) : origin[i].kind = kind}

\* The package name of the PackageFinished line at position p.
PackageName(p) == packageFinishPattern(consumed[p])[3]

\* One suite block per PackageFinished line read; each test in the block of
\* the first PackageFinished line after its start and in no other; the buffer
\* holds the tests started since the last PackageFinished line.
OneFlushPerPackage ==
  /\ Len(origin) = Len(stdout)
  /\ Len(heap) = Cardinality(StartPositions)
  /\ Cardinality(LinesOfKind("testSuiteStarted")) = Cardinality(PackagePositions)
  /\ Cardinality(LinesOfKind("testSuiteFinished")) = Cardinality(PackagePositions)
  /\ \A p \in PackagePositions :
       /\ \E i \in LinesOfKind("testSuiteStarted") :
            origin[i].src = p /\ stdout[i] = testSuiteStartedLine(PackageName(p))
       /\ \E i \in LinesOfKind("testSuiteFinished") :
            origin[i].src = p /\ stdout[i] = testSuiteFinishedLine(PackageName(p))
  /\ \A t \in 1..Len(heap) :
       LET blocks == {i \in LinesOfKind("testStarted") : origin[i].test = t}
           later == PackagesAfter(t)
       IN /\ Cardinality(blocks) <= 1
          /\ later = {} => blocks = {}
          /\ later # {} =>
               \E i \in blocks :
                 /\ \A p \in later : origin[i].src <= p
                 /\ origin[i].src \in later
                 /\ stdout[i] = testStartedLine(heap[t].name)
          /\ (later = {}) <=> (\E i \in 1..Len(packageTestBuffer) : packageTestBuffer[i] = t)

\* C9: every PackageFinished line read flushes once and then clears the buffer
\* and the capturing test: there are as many suite blocks as PackageFinished
\* lines read, every test is written in at most one suite block, that of the
\* first PackageFinished line after its TestStarted line, and never in the
\* block of a later package.
C9_OneFlushPerPackage ==
  /\ []OneFlushPerPackage
  /\ [][ ( /\ consumed' # consumed
           /\ classify(consumed'[Len(consumed')]) = "PackageFinished" )
         => /\ packageTestBuffer' = <<>>
            /\ capturingTest' = nil
            /\ Len(stdout') >= Len(stdout) + 2
       ]_vars

\* Two packages, each with one test, have been flushed.
C9_Witness ==
  /\ consumed = <<RunT1, FailT1, OkPkg, RunT2, FailP2>>
  /\ Cardinality(LinesOfKind("testSuiteStarted")) = 2
  /\ Cardinality(LinesOfKind("testStarted")) = 2
  /\ packageTestBuffer = <<>>

\* ------------------------------------------------------------------------
\* C10
\* ------------------------------------------------------------------------
\* The kinds of line a test block is made of.
BlockKinds == {"testStarted", "output", "testFailed", "testIgnored", "testFinished"}

\* The line at position k of standard output is of the kind the history says.
LineIsOfItsKind(k) ==
  LET kind == origin[k].kind
      line == stdout[k]
      test == heap[origin[k].test]
  IN /\ kind = "passthrough" => line = consumed[origin[k].src]
     /\ kind = "testSuiteStarted" => line = testSuiteStartedLine(PackageName(origin[k].src))
     /\ kind = "testSuiteFinished" => line = testSuiteFinishedLine(PackageName(origin[k].src))
     /\ kind = "testStarted" => line = testStartedLine(test.name)
     /\ kind = "output" => \E i \in 1..Len(test.output) : line = test.output[i]
     /\ kind = "testFailed" =>
          HasPrefixAt(line, TestFailedHead \o escape(test.name) \o MessageAttr, 1)
     /\ kind = "testIgnored" => line = testIgnoredLine(test.name)
     /\ kind = "testFinished" => IsTestFinishedFor(line, escape(test.name))

\* The test t was started for the package whose PackageFinished line is at p.
StartedFor(t, p) ==
  /\ StartPosition(t) < p
  /\ \A q \in PackagePositions : ~(StartPosition(t) < q /\ q < p)

\* C10: suite blocks stand in standard output in the order their
\* PackageFinished lines were read, and each is contiguous: from its
\* testSuiteStarted line to its testSuiteFinished line there are only lines of
\* test blocks of tests of that package, no passthrough line and no line of
\* another package; and every test-block line lies inside a suite block.
C10_SuitesContiguous ==
  /\ Len(origin) = Len(stdout)
  /\ \A i \in 1..Len(origin) :
       /\ LineIsOfItsKind(i)
       /\ \A j \in (i + 1)..Len(origin) : origin[i].src <= origin[j].src
  /\ \A i \in LinesOfKind("testSuiteStarted") :
       \E j \in LinesOfKind("testSuiteFinished") :
         /\ j > i
         /\ origin[j].src = origin[i].src
         /\ \A k \in (i + 1)..(j - 1) :
              /\ origin[k].kind \in BlockKinds
              /\ origin[k].src = origin[i].src
              /\ StartedFor(origin[k].test, origin[i].src)
  /\ \A k \in 1..Len(origin) :
       origin[k].kind \in BlockKinds =>
         \E i \in LinesOfKind("testSuiteStarted"), j \in LinesOfKind("testSuiteFinished") :
           i < k /\ k < j /\ origin[i].src = origin[k].src /\ origin[j].src = origin[k].src

\* Two suites with a passthrough line between them, in the order read.
C10_Witness ==
  /\ consumed = <<RunT1, OkPkg, ErrorBoom, RunT2, FailP2>>
  /\ Len(stdout) = 9
  /\ stdout[1] = testSuiteStartedLine(<<"p", "k", "g">>)
  /\ stdout[4] = testSuiteFinishedLine(<<"p", "k", "g">>)
  /\ stdout[5] = ErrorBoom
  /\ stdout[6] = testSuiteStartedLine(<<"p", "2">>)
  /\ stdout[9] = testSuiteFinishedLine(<<"p", "2">>)

\* ------------------------------------------------------------------------
\* Durations of finished tests
\* ------------------------------------------------------------------------
\* The largest duration read, in hundredths of a second, and the number of
\* lines read.
MaxHundredths == 50
MaxDurationLines == 3

T1 == <<"T", "1">>

\* The text D.DD of h hundredths of a second.
DurationText(h) ==
  FormatInt(h \div 100) \o <<".", Digits[((h \div 10) % 10) + 1], Digits[(h % 10) + 1]>>

\* "--- <status>: <name> (<text>s)"
FinishLine(status, name, text) ==
  FinishMarker \o status \o <<":", " ">> \o name \o <<" ", "(">> \o text \o <<"s", ")">>

\* "--- FAIL: T1 (1.2.3s)" and "--- PASS: T1 (.s)": the duration text is in
\* [\d.]+ and is not a number.
FailT1TwoPoints == FinishLine(FAIL, T1, <<"1", ".", "2", ".", "3">>)
PassT1PointOnly == FinishLine(PASS, T1, <<".">>)

\* One test that finishes after any duration of the range, or with a duration
\* text that is not a number.
DurationLines ==
  {FinishLine(PASS, T1, DurationText(h)) : h \in 0..MaxHundredths}
    \cup {FailT1TwoPoints, PassT1PointOnly, RunT1, ErrorBoom, OkPkg, PASS}

NextDuration ==
  \/ \E input \in Readable(DurationLines, MaxDurationLines) : Cruft(input)
  \/ \E input \in Readable(DurationLines, MaxDurationLines) : TestRun(input)
  \/ \E input \in Readable(DurationLines, MaxDurationLines) : TestFinish(input)
  \/ \E input \in Readable(DurationLines, MaxDurationLines) : TestFinishPanic(input)
  \/ \E input \in Readable(DurationLines, MaxDurationLines) : PackageFinish(input)
  \/ \E input \in Readable(DurationLines, MaxDurationLines) : CaptureOutput(input)
  \/ \E input \in Readable(DurationLines, MaxDurationLines) : PassThrough(input)
  \/ EndOfInput

SpecDuration == Init /\ [][NextDuration]_vars

\* "##teamcity[testFinished name='T1' duration='<ms>']"
T1FinishedIn(ms) ==
  TestFinishedHead \o T1 \o DurationAttr \o FormatInt(ms) \o MessageTail

\* C11: a test that finished after D.DD seconds is reported with the
\* duration D.DD * 1000, for every D.DD of the range: 20 for 0.02s.
C11_Original ==
  \A h \in 0..MaxHundredths :
    consumed = <<RunT1, FinishLine(PASS, T1, DurationText(h)), OkPkg>> =>
      stdout[3] = T1FinishedIn(10 * h)

\* What the program writes for 0.02s: the float32 nearest to 0.02 is below
\* 0.02, and the conversion to int truncates.
C11_TwoHundredthsReportedAs19 ==
  /\ consumed = <<RunT1, FinishLine(PASS, T1, DurationText(2)), OkPkg>>
  /\ stdout[3] = T1FinishedIn(19)

\* ------------------------------------------------------------------------
\* escape on its own: a string is handed to escape and the result is written
\* ------------------------------------------------------------------------
\* The number of pieces a string is made of.
MaxEscapePieces == 3

\* The characters escape is tried on: plain ones, the special ones, controls,
\* the space, and characters of two, three and four bytes of UTF-8.
EscapeChars ==
  {"a", "n", "r", "0", "|", "'", "[", "]", "\n", "\r", " ", "U+0001", "U+007F",
   "U+00E9", "U+20AC", "U+FFFF", "U+10000"}

\* "|0x0001": text that has the shape of an escape sequence.
EscapeShaped == <<"|", "0", "x", "0", "0", "0", "1">>

EscapePieces == {<<c>> : c \in EscapeChars} \cup {EscapeShaped}

RECURSIVE Concat(_)
Concat(pieces) ==
  IF pieces = <<>> THEN <<>> ELSE Head(pieces) \o Concat(Tail(pieces))

\* Every string of at most MaxEscapePieces pieces.
EscapeInputs ==
  {Concat(pieces) : pieces \in UNION {[1..k -> EscapePieces] : k \in 0..MaxEscapePieces}}

\* consumed holds the string handed to escape, stdout the string it returns.
InitEscape ==
  /\ pc = "scan"
  /\ heap = <<>>
  /\ packageTestBuffer = <<>>
  /\ capturingTest = nil
  /\ stdout = <<>>
  /\ panicValue = <<>>
  /\ consumed \in {<<input>> : input \in EscapeInputs}
  /\ origin = <<>>

\* escape(input) returns.
Escaped ==
  /\ pc = "scan"
  /\ stdout' = <<escape(consumed[1])>>
  /\ pc' = "done"
  /\ UNCHANGED <<heap, packageTestBuffer, capturingTest, panicValue, consumed, origin>>

NextEscape == Escaped

SpecEscape == InitEscape /\ [][NextEscape]_vars

\* What escape is said to write for one character; upTo is the largest code
\* point written as |0xHHHH, or nil when there is none.
EscapedCharacter(c, upTo) ==
  IF c = "\n" THEN <<"|", "n">>
  ELSE IF c = "\r" THEN <<"|", "r">>
  ELSE IF c \in {"[", "]", "|", "'"} THEN <<"|", c>>
  ELSE IF \/ CodePoint(c) \in 0..32
          \/ CodePoint(c) >= 128 /\ (upTo = nil \/ CodePoint(c) <= upTo)
       THEN <<"|", "0", "x">> \o Hex04(FirstByte(c))
       ELSE <<c>>

RECURSIVE EscapedCharacters(_, _)
EscapedCharacters(s, upTo) ==
  IF s = <<>> THEN <<>>
  ELSE EscapedCharacter(Head(s), upTo) \o EscapedCharacters(Tail(s), upTo)

\* C12 as stated: escape maps its input character by character, and every
\* character with a code point of 0x80 or more is written as |0xHHHH.
C12_Original ==
  stdout # <<>> => stdout[1] = EscapedCharacters(consumed[1], nil)

\* C12: escape maps its input character by character: |n for a newline, |r
\* for a carriage return, | and the character for [ ] | and the apostrophe,
\* |0xHHHH with the first byte of the encoding for every other character with
\* a code point in [0x00, 0x20] or [0x80, 0xFFFF], and the character itself
\* otherwise, so a character above 0xFFFF is written as it is; the bars
\* written are not escaped again.
C12_EscapePerCharacter ==
  stdout # <<>> => stdout[1] = EscapedCharacters(consumed[1], 65535)

\* A four-byte character, a two-byte character and a bar.
C12_Witness ==
  /\ consumed = << <<"U+10000", "U+00E9", "|">> >>
  /\ stdout = << <<"U+10000", "|", "0", "x", "0", "0", "c", "3", "|", "|">> >>

\* The characters the model knows.
Characters ==
  {Printable[i] : i \in 1..Len(Printable)} \cup {Runes[i][1] : i \in 1..Len(Runes)}

\* The character with a code point; U+FFFD stands for one the model has no
\* name for.
CharacterOf(cp) ==
  IF \E c \in Characters : CodePoint(c) = cp
  THEN CHOOSE c \in Characters : CodePoint(c) = cp
  ELSE "U+FFFD"

IsHexDigit(c) == \E i \in 1..Len(HexDigits) : HexDigits[i] = c

HexValue(c) == (CHOOSE i \in 1..Len(HexDigits) : HexDigits[i] = c) - 1

\* The value of the four hexadecimal digits d.
Hex4Value(d) ==
  4096 * HexValue(d[1]) + 256 * HexValue(d[2]) + 16 * HexValue(d[3]) + HexValue(d[4])

\* The inverse a reader of service messages applies: |n is a newline, |r a
\* carriage return, |0xHHHH the character with that code, |X is X.
RECURSIVE unescape(_)
unescape(s) ==
  IF s = <<>> THEN <<>>
  ELSE IF s[1] # "|" \/ Len(s) = 1 THEN <<s[1]>> \o unescape(Tail(s))
  ELSE IF s[2] = "n" THEN <<"\n">> \o unescape(SubSeq(s, 3, Len(s)))
  ELSE IF s[2] = "r" THEN <<"\r">> \o unescape(SubSeq(s, 3, Len(s)))
  ELSE IF /\ Len(s) >= 7
          /\ s[2] = "0"
          /\ s[3] = "x"
          /\ \A i \in 4..7 : IsHexDigit(s[i])
       THEN <<CharacterOf(Hex4Value(SubSeq(s, 4, 7)))>> \o unescape(SubSeq(s, 8, Len(s)))
  ELSE <<s[2]>> \o unescape(SubSeq(s, 3, Len(s)))

IsAscii(s) == \A i \in 1..Len(s) : CodePoint(s[i]) < 128

\* C13: for every string of ASCII characters, the inverse of the escaping
\* applied to escape(s) gives s back: also for the special characters, the
\* space, control characters, and text that already has the shape of an
\* escape sequence.
C13_AsciiRoundTrip ==
  (stdout # <<>> /\ IsAscii(consumed[1])) => unescape(stdout[1]) = consumed[1]

\* "|0x0001", a newline and a space: escaped to "||0x0001|n|0x0020" and back.
C13_Witness ==
  /\ consumed = <<EscapeShaped \o <<"\n", " ">>>>
  /\ stdout =
       << <<"|", "|", "0", "x", "0", "0", "0", "1", "|", "n", "|", "0", "x", "0", "0", "2", "0">> >>
  /\ unescape(stdout[1]) = consumed[1]

\* ------------------------------------------------------------------------
\* When service messages are written
\* ------------------------------------------------------------------------
\* C14: service messages are written only by the step that reads a
\* PackageFinished line: a step that reads a line of another kind writes
\* nothing, or, for an Unclassified line, that line alone; the step that ends
\* the input writes nothing; no step follows the end of the input or the
\* panic; so the records in the buffer at that point, and the lines they
\* captured, are never written.
C14_MessagesOnlyAtPackageFinish ==
  /\ [][pc = "scan"]_vars
  /\ [][(consumed' # consumed /\ classify(consumed'[Len(consumed')]) # "PackageFinished") =>
          \/ stdout' = stdout /\ origin' = origin
          \/ /\ classify(consumed'[Len(consumed')]) = "Unclassified"
             /\ stdout' = Append(stdout, consumed'[Len(consumed')])
             /\ origin' = Append(origin, Wrote("passthrough", nil))]_vars
  /\ [][consumed' = consumed => (stdout' = stdout /\ origin' = origin)]_vars
  /\ [](\A k \in 1..Len(origin) :
          \/ origin[k].kind = "passthrough"
          \/ /\ origin[k].src \in 1..Len(consumed)
             /\ classify(consumed[origin[k].src]) = "PackageFinished")
  /\ [](\A i \in 1..Len(packageTestBuffer) : \A k \in 1..Len(origin) :
          origin[k].test # packageTestBuffer[i])

\* The input ends while a failed test that captured a line is in the buffer:
\* nothing was written.
C14_Witness ==
  /\ pc = "done"
  /\ consumed = <<RunT1, FailT1, ErrorBoom>>
  /\ Len(packageTestBuffer) = 1
  /\ heap[packageTestBuffer[1]].output = <<ErrorBoom>>
  /\ stdout = <<>>

\* ------------------------------------------------------------------------
\* The records of the buffer
\* ------------------------------------------------------------------------
\* C15: the names of the records in the buffer are pairwise distinct in every
\* reachable state.
C15_Original ==
  \A i, j \in 1..Len(packageTestBuffer) :
    i # j => heap[packageTestBuffer[i]].name # heap[packageTestBuffer[j]].name

\* Two TestStarted lines with one name leave two records of that name.
C15_TwoRecordsOfOneName ==
  /\ consumed = <<RunT1, RunT1>>
  /\ Len(packageTestBuffer) = 2
  /\ heap[packageTestBuffer[1]].name = T1
  /\ heap[packageTestBuffer[2]].name = T1

\* C16: every record a flush has written lines for has a status of PASS, FAIL
\* or SKIP: no test block is written for a record that no TestFinished line
\* has named.
C16_Original ==
  \A k \in 1..Len(origin) :
    origin[k].test # nil => heap[origin[k].test].status \in {PASS, FAIL, SKIP}

\* A test that was started and never finished is written as a test block
\* with no status line and a duration of 0.
C16_PendingRecordFlushed ==
  /\ consumed = <<RunT1, OkPkg>>
  /\ stdout =
       <<testSuiteStartedLine(<<"p", "k", "g">>),
         TestStartedHead \o T1 \o TestStartedTail,
         T1FinishedIn(0),
         testSuiteFinishedLine(<<"p", "k", "g">>)>>

\* ------------------------------------------------------------------------
\* Duration texts that are not numbers
\* ------------------------------------------------------------------------
\* The TestFinished lines of the input whose duration text is not a number,
\* with the status they carry.
NotANumberLines == {<<FailT1TwoPoints, FAIL>>, <<PassT1PointOnly, PASS>>}

\* The position of the last TestFinished line read before line src and after
\* the PackageFinished line before it, or 0.
LastFinishBefore(src) ==
  LET finishes ==
        {i \in 1..(src - 1) :
           /\ classify(consumed[i]) = "TestFinished"
           /\ \A j \in (i + 1)..(src - 1) : classify(consumed[j]) # "PackageFinished"}
  IN IF finishes = {} THEN 0 ELSE CHOOSE i \in finishes : \A j \in finishes : j <= i

\* C17: a TestFinished line whose duration text is in the grammar and is not
\* a number (1.2.3, a lone point) is no error: the step that reads it for a
\* started test sets the status of the record, leaves its duration 0, makes
\* the record the capturing test when the status is FAIL and leaves the
\* capturing test as it was otherwise, as for any TestFinished line, and the
\* loop goes on; the record is then written with duration='0'.
C17_NotANumberIsZero ==
  /\ [][\A line \in NotANumberLines :
          (consumed' = Append(consumed, line[1]) /\ packageTestBuffer # <<>>) =>
            /\ pc' = "scan"
            /\ panicValue' = <<>>
            /\ packageTestBuffer' = packageTestBuffer
            /\ stdout' = stdout
            /\ heap'[packageTestBuffer[1]].status = line[2]
            /\ heap'[packageTestBuffer[1]].durationSec = FloatZero
            /\ capturingTest' = IF line[2] = FAIL THEN packageTestBuffer[1]
                                ELSE capturingTest]_vars
  /\ [](\A k \in 1..Len(origin) :
          (/\ origin[k].kind = "testFinished"
           /\ LastFinishBefore(origin[k].src) # 0
           /\ \E line \in NotANumberLines :
                consumed[LastFinishBefore(origin[k].src)] = line[1]) =>
            stdout[k] = T1FinishedIn(0))

\* A test that failed after "1.2.3" seconds is written as failed, with a
\* duration of 0.
C17_Witness ==
  /\ consumed = <<RunT1, FailT1TwoPoints, OkPkg>>
  /\ Len(stdout) = 5
  /\ stdout[3] = testFailedLine(T1, <<>>)
  /\ stdout[4] = T1FinishedIn(0)

\* ------------------------------------------------------------------------
\* The message of a failed test
\* ------------------------------------------------------------------------
\* The number of lines read when the input is drawn from MessageLines.
MaxMessageLines == 5

\* "boom"
Boom == <<"b", "o", "o", "m">>
\* "  boom "
PaddedBoom == <<" ", " ", "b", "o", "o", "m", " ">>

\* One failing test and output lines: "Error:" alone on a line, text with and
\* without "Error:", and text in white space.
MessageLines == {RunT1, FailT1, ErrorMarker, Boom, PaddedBoom, ErrorBoom, OkPkg, PASS}

NextMessage ==
  \/ \E input \in Readable(MessageLines, MaxMessageLines) : Cruft(input)
  \/ \E input \in Readable(MessageLines, MaxMessageLines) : TestRun(input)
  \/ \E input \in Readable(MessageLines, MaxMessageLines) : TestFinish(input)
  \/ \E input \in Readable(MessageLines, MaxMessageLines) : TestFinishPanic(input)
  \/ \E input \in Readable(MessageLines, MaxMessageLines) : PackageFinish(input)
  \/ \E input \in Readable(MessageLines, MaxMessageLines) : CaptureOutput(input)
  \/ \E input \in Readable(MessageLines, MaxMessageLines) : PassThrough(input)
  \/ EndOfInput

SpecMessage == Init /\ [][NextMessage]_vars

\* The positions of a line where "Error:" is followed by a white space
\* character and more text.
ErrorWithText(line) ==
  {p \in 1..Len(line) :
     /\ HasPrefixAt(line, ErrorMarker, p)
     /\ Len(line) >= p + Len(ErrorMarker) + 1
     /\ IsSpace(line[p + Len(ErrorMarker)])}

\* The message said to be written for captured lines: from "Error:" to the
\* end of the first line that has it followed by white space and text, else
\* the first line trimmed, else nothing.
MessageOfOneLine(lines) ==
  LET with == {i \in 1..Len(lines) : ErrorWithText(lines[i]) # {}}
  IN IF with # {}
     THEN LET i == CHOOSE i \in with : \A j \in with : i <= j
              p == CHOOSE p \in ErrorWithText(lines[i]) :
                     \A q \in ErrorWithText(lines[i]) : p <= q
          IN SubSeq(lines[i], p, Len(lines[i]))
     ELSE IF lines # <<>> THEN TrimSpace(lines[1])
     ELSE <<>>

\* C18: the message of a failed test is taken from one captured line: from
\* "Error:" to the end of the first captured line that has "Error:" followed
\* by white space and more text, else the first captured line trimmed, else
\* the empty string; it holds no newline.
C18_Original ==
  \A k \in 1..Len(origin) :
    origin[k].kind = "testFailed" =>
      stdout[k] = TestFailedHead \o escape(heap[origin[k].test].name) \o MessageAttr
                    \o escape(MessageOfOneLine(heap[origin[k].test].output)) \o MessageTail

\* "Error:" alone on a captured line and "boom" on the next: the message is
\* both lines, written as "Error:|nboom".
C18_MessageOfTwoLines ==
  /\ consumed = <<RunT1, FailT1, ErrorMarker, Boom, OkPkg>>
  /\ stdout[5] = TestFailedHead \o T1 \o MessageAttr
                   \o <<"E", "r", "r", "o", "r", ":", "|", "n", "b", "o", "o", "m">>
                   \o MessageTail

\* ------------------------------------------------------------------------
\* The capturing test
\* ------------------------------------------------------------------------
InBuffer(t, buffer) == \E i \in 1..Len(buffer) : buffer[i] = t

\* C19: the capturing test is nil or a record of the buffer: the step that
\* reads a PackageFinished line leaves it nil and the buffer empty, it is
\* never a record a flush has written, and a line is added only to the output
\* of a record that is in the buffer.
C19_CapturingInBuffer ==
  /\ [](capturingTest = nil \/ InBuffer(capturingTest, packageTestBuffer))
  /\ [](\A k \in 1..Len(origin) : origin[k].test # nil => origin[k].test # capturingTest)
  /\ [][(consumed' # consumed /\ classify(consumed'[Len(consumed')]) = "PackageFinished") =>
          (capturingTest' = nil /\ packageTestBuffer' = <<>>)]_vars
  /\ [][\A t \in 1..Len(heap) :
          heap'[t].output # heap[t].output =>
            (InBuffer(t, packageTestBuffer) /\ InBuffer(t, packageTestBuffer'))]_vars

\* A failed test was capturing when its package finished: the next line of
\* output is passed through and the flushed record keeps no line.
C19_Witness ==
  /\ consumed = <<RunT1, FailT1, OkPkg, ErrorBoom>>
  /\ capturingTest = nil
  /\ packageTestBuffer = <<>>
  /\ heap[1].output = <<>>
  /\ Len(stdout) = 6
  /\ stdout[6] = ErrorBoom

\* ------------------------------------------------------------------------
\* Classification comes before capture
\* ------------------------------------------------------------------------
\* The number of lines read when the input is drawn from ClassifiedLines.
MaxClassifiedLines == 4

T2 == <<"T", "2">>

\* "? p3"
NoTestsP3 == <<"?", " ", "p", "3">>

\* Lines of each of the four grammars, and one of none.
ClassifiedLines ==
  {RunT1, RunT2, FailT1, FailT2, PASS, FAIL, OkPkg, FailP2, NoTestsP3, ErrorBoom}

NextClassified ==
  \/ \E input \in Readable(ClassifiedLines, MaxClassifiedLines) : Cruft(input)
  \/ \E input \in Readable(ClassifiedLines, MaxClassifiedLines) : TestRun(input)
  \/ \E input \in Readable(ClassifiedLines, MaxClassifiedLines) : TestFinish(input)
  \/ \E input \in Readable(ClassifiedLines, MaxClassifiedLines) : TestFinishPanic(input)
  \/ \E input \in Readable(ClassifiedLines, MaxClassifiedLines) : PackageFinish(input)
  \/ \E input \in Readable(ClassifiedLines, MaxClassifiedLines) : CaptureOutput(input)
  \/ \E input \in Readable(ClassifiedLines, MaxClassifiedLines) : PassThrough(input)
  \/ EndOfInput

SpecClassified == Init /\ [][NextClassified]_vars

\* The lines of the input by grammar, with the name each carries.
CruftOfInput == {PASS, FAIL}
StartsOfInput == {<<RunT1, T1>>, <<RunT2, T2>>}
FinishesOfInput == {<<FailT1, T1>>, <<FailT2, T2>>}
PackagesOfInput ==
  {<<OkPkg, <<"p", "k", "g">> >>, <<FailP2, <<"p", "2">> >>, <<NoTestsP3, <<"p", "3">> >>}

\* No record has a line added to its output by the step.
NoLineCaptured == \A t \in 1..Len(heap) : heap'[t].output = heap[t].output

\* C20: a line is classified before capture is considered: while a failed
\* test is capturing, a line of one of the four grammars is neither added to
\* the captured output nor passed through, and is processed as its event: a
\* bare PASS or FAIL is dropped and flushes nothing; a TestStarted line adds
\* a record and ends the capture; a line that starts with ok, FAIL or ? and
\* a token flushes the buffer as the suite of that name; a TestFinished line
\* for a name that is not in the buffer is fatal, and one for a name in the
\* buffer sets the status of its record.
C20_ClassifiedBeforeCapture ==
  [][(capturingTest # nil /\ consumed' # consumed) =>
       LET line == consumed'[Len(consumed')]
           known(name) ==
             \E i \in 1..Len(packageTestBuffer) : heap[packageTestBuffer[i]].name = name
       IN /\ line # ErrorBoom =>
               /\ NoLineCaptured
               /\ stdout' # Append(stdout, line)
          /\ line \in CruftOfInput =>
               UNCHANGED <<pc, heap, packageTestBuffer, capturingTest, stdout, panicValue, origin>>
          /\ \A start \in StartsOfInput :
               line = start[1] =>
                 /\ heap' = Append(heap, testResult(start[2]))
                 /\ packageTestBuffer' = Append(packageTestBuffer, Len(heap) + 1)
                 /\ capturingTest' = nil
                 /\ UNCHANGED <<pc, stdout>>
          /\ \A finish \in FinishesOfInput :
               line = finish[1] =>
                 IF known(finish[2])
                 THEN /\ pc' = "scan"
                      /\ heap'[findTest(finish[2], packageTestBuffer)].status = FAIL
                      /\ UNCHANGED <<packageTestBuffer, stdout>>
                 ELSE /\ pc' = "panic"
                      /\ UNCHANGED <<heap, packageTestBuffer, stdout>>
          /\ \A package \in PackagesOfInput :
               line = package[1] =>
                 /\ Len(stdout') >= Len(stdout) + 2
                 /\ stdout'[Len(stdout) + 1] = testSuiteStartedLine(package[2])
                 /\ stdout'[Len(stdout')] = testSuiteFinishedLine(package[2])
                 /\ \A i \in 1..Len(packageTestBuffer) :
                      \E k \in (Len(stdout) + 1)..Len(stdout') :
                        stdout'[k] = testStartedLine(heap[packageTestBuffer[i]].name)
                 /\ packageTestBuffer' = <<>>
                 /\ capturingTest' = nil
                 /\ UNCHANGED <<pc, heap>>]_vars

\* While T1 is capturing, a bare FAIL is dropped and "FAIL p2" flushes the
\* suite p2: T1 has captured neither line.
C20_Witness ==
  /\ consumed = <<RunT1, FailT1, FAIL, FailP2>>
  /\ heap[1].output = <<>>
  /\ capturingTest = nil
  /\ Len(stdout) = 5
  /\ stdout[1] = testSuiteStartedLine(<<"p", "2">>)
  /\ stdout[3] = testFailedLine(T1, <<>>)
  /\ stdout[5] = testSuiteFinishedLine(<<"p", "2">>)

====
